---- MODULE Spec2Model ----
(***************************************************************************)
(* Model of vineyard::ArrowFragmentLoader                                  *)
(* (modules/graph/loader/arrow_fragment_loader.h).                         *)
(*                                                                         *)
(* Every worker runs LoadFragmentAsFragmentGroup:                          *)
(*   initPartitioner; initBasicLoader (loadVertexTables, loadEdgeTables,   *)
(*   one SyncSchema per table); shuffleAndBuild; constructFragmentGroup.   *)
(* Workers meet only in MPI collectives. A collective is modelled with the *)
(* weakest completion rule MPI allows: a non-root Gather/Gatherv returns   *)
(* as soon as the local contribution is handed over, the root returns when *)
(* every contribution is there; a root Bcast returns at once, a non-root   *)
(* Bcast returns when the root has broadcast.                              *)
(***************************************************************************)
EXTENDS Integers, Sequences, FiniteSets, TLC

(* ------------------------------ bounds --------------------------------- *)

\* largest worker_num (comm_spec.worker_num()) explored
MaxWorkers == 2
\* vertex_label_num_ and edge_label_num_ of the loader
VertexLabelNum == 1
EdgeLabelNum == 1
\* number of entries of the semicolon-separated file list
NumFiles == 1
\* number of columns of every shard file
NumFields == 1
\* largest row count of a shard as read
MaxRows == 1
\* number of vineyard instances the clients may be connected to
MaxInstances == 2
\* FindMostCommonSchema taken alone: number of schemas, fields per schema
MaxSchemas == 3
MaxSchemaFields == 1
\* the shuffle of a vertex table taken alone: external ids are 1..MaxOid, and a
\* global id keeps OffsetBits bits for the offset
MaxOid == 3
OffsetBits == 2
\* the re-indexing taken alone: entries of the file list, labels of each kind
MaxFiles == 2
MaxLabels == 2
\* swapColumn taken alone: columns of the table
MaxColumns == 3

(* ------------------------- arrow types and schemas ---------------------- *)

\* the column types CSV inference produces here
Types == {"double", "int64", "null"}

\* arrow::DataType::ToString(), as the characters of the string
TypeToString(t) ==
  CASE t = "double" -> <<100, 111, 117, 98, 108, 101>>
    [] t = "int64"  -> <<105, 110, 116, 54, 52>>
    [] t = "null"   -> <<110, 117, 108, 108>>

\* std::string operator< : lexicographic order
RECURSIVE StrLess(_, _)
StrLess(a, b) ==
  IF b = <<>> THEN FALSE
  ELSE IF a = <<>> THEN TRUE
  ELSE IF Head(a) # Head(b) THEN Head(a) < Head(b)
  ELSE StrLess(Tail(a), Tail(b))

\* arrow::DataType::Equals
TypeEquals(s, t) == s = t

\* header name of column i (1-based position) of a shard file
ColName(i) == <<"c", i>>

\* std::shared_ptr<arrow::Schema>: null, or pointing to a list of fields
NullSchema == [null |-> TRUE, fields |-> <<>>]
SchemaPtr(s) == [null |-> FALSE, fields |-> s]

\* the schemas with exactly n fields, names taken from the file header
SchemasOfLen(n) ==
  { [i \in 1..n |-> [name |-> ColName(i), type |-> ty[i]]] : ty \in [1..n -> Types] }

\* wire codes of the IPC schema message
TypeCode(t) == CASE t = "double" -> 1 [] t = "int64" -> 2 [] t = "null" -> 3
CodeType(c) == CASE c = 1 -> "double" [] c = 2 -> "int64" [] c = 3 -> "null"

\* SerializeSchema: field count, then (column number, type code) per field
RECURSIVE SerializeFields(_)
SerializeFields(fs) ==
  IF fs = <<>> THEN <<>>
  ELSE <<Head(fs).name[2], TypeCode(Head(fs).type)>> \o SerializeFields(Tail(fs))

SerializeSchema(schema) == <<Len(schema)>> \o SerializeFields(schema)

\* DeserializeSchema: inverse reading of the buffer
DeserializeSchema(buffer) ==
  [i \in 1..buffer[1] |->
     [name |-> ColName(buffer[2 * i]), type |-> CodeType(buffer[2 * i + 1])]]

(* --------------------------- FindMostCommonSchema ----------------------- *)

\* the field count taken from schemas[0] alone, without the search loop
FirstFieldNum_OnlyFirst(schemas) ==
  IF schemas = <<>> \/ Head(schemas).null THEN 0 ELSE Len(Head(schemas).fields)

\* lines 140-146: field count of the first non-null schema
RECURSIVE FirstFieldNum(_)
FirstFieldNum(schemas) ==
  IF schemas = <<>> THEN 0
  ELSE IF ~Head(schemas).null THEN Len(Head(schemas).fields)
  ELSE FirstFieldNum(Tail(schemas))

\* lines 149-156: does schemas[j]->field(i) stay inside every non-null schema
FieldAccessInRange(schemas) ==
  \A j \in 1..Len(schemas) :
    ~schemas[j].null => Len(schemas[j].fields) >= FirstFieldNum(schemas)

\* lines 150-155: the fields at position i of the non-null schemas, in j order
RECURSIVE FieldsAt(_, _)
FieldsAt(schemas, i) ==
  IF schemas = <<>> THEN <<>>
  ELSE IF Head(schemas).null THEN FieldsAt(Tail(schemas), i)
  ELSE <<Head(schemas).fields[i]>> \o FieldsAt(Tail(schemas), i)

\* lines 159-163: std::sort by type string; it is not stable, so every
\* arrangement that is ordered by the comparator is a possible outcome
SortedByTypeString(fs) ==
  { [k \in 1..Len(fs) |-> fs[p[k]]] :
      p \in { q \in [1..Len(fs) -> 1..Len(fs)] :
                /\ \A x, y \in 1..Len(fs) : x # y => q[x] # q[y]
                /\ \A x \in 1..(Len(fs) - 1) :
                     ~StrLess(TypeToString(fs[q[x + 1]].type), TypeToString(fs[q[x]].type)) } }

\* the traversal with >= for > : among equally frequent types the last one wins
RECURSIVE ScanRuns_TieLast(_, _, _, _, _)
ScanRuns_TieLast(fs, j, max_count, curr_count, res) ==
  IF j > Len(fs) THEN
    IF curr_count >= max_count THEN fs[Len(fs)] ELSE res
  ELSE IF TypeEquals(fs[j].type, fs[j - 1].type) THEN
    ScanRuns_TieLast(fs, j + 1, max_count, curr_count + 1, res)
  ELSE IF curr_count >= max_count THEN
    ScanRuns_TieLast(fs, j + 1, curr_count, 1, fs[j - 1])
  ELSE
    ScanRuns_TieLast(fs, j + 1, max_count, 1, res)

\* lines 166-178: the linear traversal, from index j (1-based) on
RECURSIVE ScanRuns(_, _, _, _, _)
ScanRuns(fs, j, max_count, curr_count, res) ==
  IF j > Len(fs) THEN
    \* lines 181-184: the last run
    IF curr_count > max_count THEN fs[Len(fs)] ELSE res
  ELSE IF TypeEquals(fs[j].type, fs[j - 1].type) THEN
    ScanRuns(fs, j + 1, max_count, curr_count + 1, res)
  ELSE IF curr_count > max_count THEN
    ScanRuns(fs, j + 1, curr_count, 1, fs[j - 1])
  ELSE
    ScanRuns(fs, j + 1, max_count, 1, res)

\* lines 166-185 for one sorted list of fields
MostCommonField(sorted) == ScanRuns(sorted, 2, 1, 1, sorted[1])

\* the loops over the positions stopping one short: the last field is lost
FindMostCommonSchema_DropLast(schemas) ==
  LET field_num == FirstFieldNum(schemas)
      perPos == [i \in 1..field_num |->
                   { MostCommonField(s) : s \in SortedByTypeString(FieldsAt(schemas, i)) }]
  IN  { SubSeq(fin, 1, field_num - 1) :
          fin \in { f \in [1..field_num -> UNION { perPos[i] : i \in 1..field_num }] :
                      \A i \in 1..field_num : f[i] \in perPos[i] } }

\* lines 138-189: the schemas FindMostCommonSchema can return when every
\* field(i) access is in range
FindMostCommonSchema(schemas) ==
  LET field_num == FirstFieldNum(schemas)
      perPos == [i \in 1..field_num |->
                   { MostCommonField(s) : s \in SortedByTypeString(FieldsAt(schemas, i)) }]
  IN  { fin \in [1..field_num -> UNION { perPos[i] : i \in 1..field_num }] :
          \A i \in 1..field_num : fin[i] \in perPos[i] }

(* ------------------------------- state ---------------------------------- *)

VARIABLES
  worker_num,     \* comm_spec.worker_num(); fnum equals it
  instance_id,    \* client.instance_id() of every worker
  partial_v_tables,  \* partial_v_tables_ of every worker, empty unless supplied
  partial_e_tables,  \* partial_e_tables_ of every worker, empty unless supplied
  pc,             \* position of every worker in LoadFragmentAsFragmentGroup
  cur,            \* number of the table a worker is loading (vertex tables first)
  table,          \* the local `table` of loadVertexTables / loadEdgeTables
  loaded,         \* the stamped tables a worker has put into `tables` so far
  partitioner,    \* fnum given to partitioner_.Init, 0 before
  calls,          \* collectives called in the current SyncSchema / constructFragmentGroup
  phases,         \* the pipeline phases a worker has started, in order
  sent_size,      \* MPI_Gather of the serialized sizes, per table and worker
  sent_bytes,     \* MPI_Gatherv of the serialized schemas, per table and worker
  bcast,          \* the serialized final schema the coordinator broadcast, per table
  gathered,       \* the coordinator's `schemas` vector, per table
  final_schema,   \* the coordinator's final_schema, per table
  arrived,        \* workers inside the vertex / edge all-to-all exchange
  next_id,        \* next object id of every vineyard instance
  objects,        \* sealed objects: [inst, id, kind]
  persisted,      \* <<inst, id>> of the persisted objects
  vm_id,          \* id of the vertex map a worker sealed
  frag_id,        \* id of the fragment a worker sealed
  g_instance,     \* MPI_Gather of the instance ids
  g_frag,         \* MPI_Gather of the fragment ids
  group,          \* the group object the coordinator sealed
  group_bcast,    \* the group object id the coordinator broadcast
  result,         \* what LoadFragmentAsFragmentGroup returned
  fm_schemas,     \* FindMostCommonSchema taken alone: its argument
  fm_result,      \* ... and what it returned
  fm_pc,
  sh_table,       \* the shuffle of one vertex table taken alone: the table's number
  sh_in,          \* ... the OID column of every worker's table as loaded
  sh_sent,        \* ... what every worker handed to the all-to-all exchange
  sh_out,         \* ... the OID column of the table every worker owns afterwards
  sh_vm,          \* ... the vertex map as every worker sees it
  sh_pc,
  bd_shuffled,    \* the re-indexing taken alone: what the two shuffles returned
  bd_v_tables,    \* ... local_v_tables after line 374
  bd_e_tables,    \* ... local_e_tables after line 386
  bd_schema,      \* ... the entries of the PropertyGraphSchema
  bd_pc,
  sw_in,          \* swapColumn taken alone: the columns of the table `in`
  sw_lhs,         \* ... lhs_index
  sw_rhs,         \* ... rhs_index
  sw_prior,       \* ... what the caller's *out held before the call
  sw_out,         \* ... the caller's *out
  sw_status,      \* ... the arrow::Status returned
  sw_pc

loadVars == <<cur, table, loaded, partitioner>>
syncVars == <<sent_size, sent_bytes, bcast, gathered, final_schema>>
storeVars == <<next_id, objects, persisted, vm_id, frag_id>>
groupVars == <<g_instance, g_frag, group, group_bcast>>
fmVars == <<fm_schemas, fm_result, fm_pc>>
shVars == <<sh_table, sh_in, sh_sent, sh_out, sh_vm, sh_pc>>
bdVars == <<bd_shuffled, bd_v_tables, bd_e_tables, bd_schema, bd_pc>>
swVars == <<sw_in, sw_lhs, sw_rhs, sw_prior, sw_out, sw_status, sw_pc>>
confVars == <<worker_num, instance_id, partial_v_tables, partial_e_tables>>
vars == <<worker_num, instance_id, partial_v_tables, partial_e_tables, pc, cur, table, loaded, partitioner, calls,
          phases, sent_size, sent_bytes, bcast, gathered, final_schema, arrived,
          next_id, objects, persisted, vm_id, frag_id, g_instance, g_frag, group,
          group_bcast, result, fm_schemas, fm_result, fm_pc,
          sh_table, sh_in, sh_sent, sh_out, sh_vm, sh_pc,
          bd_shuffled, bd_v_tables, bd_e_tables, bd_schema, bd_pc,
          sw_in, sw_lhs, sw_rhs, sw_prior, sw_out, sw_status, sw_pc>>

Workers == 0..(worker_num - 1)
\* comm_spec.fnum(): one fragment per worker
fnum == worker_num
\* comm_spec.worker_id() == 0
Coordinator == 0

\* the tables vector of loadVertexTables / loadEdgeTables: file_list.size() * label_num
NumVertexTables == NumFiles * VertexLabelNum
NumEdgeTables == NumFiles * EdgeLabelNum
NumTables == NumVertexTables + NumEdgeTables
TableIds == 1..NumTables
IsVertexTable(k) == k <= NumVertexTables
\* the loop variable `label` when table k is loaded (k = i * label_num + label + 1)
LabelOf(k) ==
  IF IsVertexTable(k) THEN (k - 1) % VertexLabelNum
  ELSE (k - NumVertexTables - 1) % EdgeLabelNum

id_column == 0
src_column == 0
dst_column == 1

\* nothing handed to a collective yet
NotSent == -1
NoBytes == <<-1>>

\* boost::leaf::result<vineyard::ObjectID>
NoResult == [kind |-> "none", id |-> 0, code |-> ""]
Ok(id) == [kind |-> "ok", id |-> id, code |-> ""]
Error(code) == [kind |-> "error", id |-> 0, code |-> code]

\* arrow::KeyValueMetadata of a table; -1 and "" stand for an absent key
NoMeta ==
  [type |-> "", label |-> "", label_index |-> -1, id_column |-> -1,
   sub_label_num |-> -1, src_column |-> -1, dst_column |-> -1,
   src_label_0 |-> "", dst_label_0 |-> ""]

\* std::shared_ptr<arrow::Table>: null, a table, or what the build makes of
\* table->ReplaceSchemaMetadata on a null table
Null == [state |-> "null", schema |-> <<>>, num_rows |-> 0, meta |-> NoMeta]
Garbage == [state |-> "garbage", schema |-> <<>>, num_rows |-> 0, meta |-> NoMeta]
Table(s, n) == [state |-> "table", schema |-> s, num_rows |-> n, meta |-> NoMeta]
\* an exception leaving SyncSchema instead of a table
Thrown == [state |-> "throw", schema |-> <<>>, num_rows |-> 0, meta |-> NoMeta]

\* what ReadTable can hand back for a shard: no table, or rows under a schema
ReadOutcomes ==
  {Null} \cup { Table(s, n) : s \in SchemasOfLen(NumFields), n \in 1..MaxRows }

\* the code a failed SetPartialRead / Open / ReadTable is reported with
ShardReadErrorCode == "IOError"

(* --------------------------- LoadFragment ------------------------------- *)

\* LoadFragment with the tables loaded before the partitioner is initialised
LoadFragmentSteps_LoadFirst == <<"initBasicLoader", "initPartitioner", "shuffleAndBuild">>

\* lines 94-100: the calls of LoadFragment, in order
LoadFragmentSteps == <<"initPartitioner", "initBasicLoader", "shuffleAndBuild">>

\* the call that follows `step` in LoadFragment; after the last one LoadFragment
\* returns into LoadFragmentAsFragmentGroup, which calls constructFragmentGroup
StepAfter(step) ==
  LET i == CHOOSE j \in 1..Len(LoadFragmentSteps) : LoadFragmentSteps[j] = step
  IN  IF i < Len(LoadFragmentSteps) THEN LoadFragmentSteps[i + 1]
      ELSE "constructFragmentGroup"

\* where a worker stands when it enters a call
EntryPc(step) ==
  CASE step = "initPartitioner" -> "init_partitioner"
    [] step = "initBasicLoader" -> "read"
    [] step = "shuffleAndBuild" -> "shuffle_v"
    [] step = "constructFragmentGroup" -> "cfg"

StartPhase(ph, name) == IF name \in { ph[i] : i \in 1..Len(ph) } THEN ph ELSE Append(ph, name)

(* ------------------------------ tables ---------------------------------- *)

\* lines 522-526: metadata of a vertex table
VertexMeta(label) ==
  [NoMeta EXCEPT !.type = "VERTEX", !.label_index = label, !.label = "_",
                 !.id_column = id_column]

\* lines 563-569: metadata of an edge table
EdgeMeta(label) ==
  [NoMeta EXCEPT !.type = "EDGE", !.label = "_", !.label_index = label,
                 !.sub_label_num = 1, !.src_column = src_column,
                 !.dst_column = dst_column]

\* lines 527, 570: table->ReplaceSchemaMetadata(meta) for table number k
Stamp(t, k) ==
  [t EXCEPT !.meta = IF IsVertexTable(k) THEN VertexMeta(LabelOf(k)) ELSE EdgeMeta(LabelOf(k))]

\* arrow::PromoteTableToSchema succeeds: every field of the target is absent from
\* the table (a column of nulls is added), of the same type, or of type null in
\* the table; and the table has no field the target lacks
Promotable(schema, target) ==
  \/ schema = target
  \/ /\ \A i \in 1..Len(target) :
          LET same == { j \in 1..Len(schema) : schema[j].name = target[i].name }
          IN  /\ Cardinality(same) <= 1
              /\ \A j \in same :
                   \/ TypeEquals(schema[j].type, target[i].type)
                   \/ schema[j].type = "null"
     /\ \A j \in 1..Len(schema) : \E i \in 1..Len(target) : target[i].name = schema[j].name

\* the promoted table is dropped: the table keeps its own schema
PromoteTableToSchema_Keep(t, target) == t

\* line 285: the table PromoteTableToSchema returns
PromoteTableToSchema(t, target) == [t EXCEPT !.schema = target]

\* line 282: the table EmptyTableBuilder::Build makes
EmptyTable(target) == Table(target, 0)

\* lines 281-286: the table SyncSchema leaves in `table`, or the exception
Reconcile(t, target) ==
  IF t = Null THEN EmptyTable(target)
  ELSE IF Promotable(t.schema, target) THEN PromoteTableToSchema(t, target)
  ELSE Thrown

(* ------------------------------- Init ----------------------------------- *)

\* no group object yet
NoGroup ==
  [id |-> 0, inst |-> 0, total_frag_num |-> 0, vertex_label_num |-> 0,
   edge_label_num |-> 0, fragments |-> <<>>]

\* instance ids up to renaming: the coordinator's instance is 0, a new instance
\* takes the next number
InstanceChoices(n) ==
  { f \in [0..(n - 1) -> 0..(MaxInstances - 1)] :
      /\ f[0] = 0
      /\ \A w \in 1..(n - 1) : \E v \in 0..(w - 1) : f[w] <= f[v] + 1 }

ProtocolInit(n, inst, start) ==
  /\ worker_num = n
  /\ instance_id = inst
  /\ pc = [w \in 0..(n - 1) |-> start]
  /\ cur = [w \in 0..(n - 1) |-> 1]
  /\ table = [w \in 0..(n - 1) |-> Null]
  /\ loaded = [w \in 0..(n - 1) |-> <<>>]
  /\ partitioner = [w \in 0..(n - 1) |-> 0]
  /\ calls = [w \in 0..(n - 1) |-> <<>>]
  /\ phases = [w \in 0..(n - 1) |-> <<>>]
  /\ sent_size = [k \in TableIds |-> [w \in 0..(n - 1) |-> NotSent]]
  /\ sent_bytes = [k \in TableIds |-> [w \in 0..(n - 1) |-> NoBytes]]
  /\ bcast = [k \in TableIds |-> NoBytes]
  /\ gathered = [k \in TableIds |-> <<>>]
  /\ final_schema = [k \in TableIds |-> NullSchema]
  /\ arrived = [x \in {"v", "e"} |-> {}]
  /\ next_id = [i \in 0..(MaxInstances - 1) |-> 1]
  /\ objects = {}
  /\ persisted = {}
  /\ vm_id = [w \in 0..(n - 1) |-> 0]
  /\ frag_id = [w \in 0..(n - 1) |-> 0]
  /\ g_instance = [w \in 0..(n - 1) |-> NotSent]
  /\ g_frag = [w \in 0..(n - 1) |-> NotSent]
  /\ group = NoGroup
  /\ group_bcast = NotSent
  /\ result = [w \in 0..(n - 1) |-> NoResult]

\* lines 63-76: the loader constructed from file paths; the two lists of
\* supplied tables stay empty
FileConstructor ==
  /\ partial_v_tables = [w \in Workers |-> <<>>]
  /\ partial_e_tables = [w \in Workers |-> <<>>]

\* FindMostCommonSchema, the shuffle and the re-indexing are not looked at alone
SchemaOff ==
  /\ fm_schemas = <<>>
  /\ fm_result = NullSchema
  /\ fm_pc = "off"

ShuffleOff ==
  /\ sh_table = 0
  /\ sh_in = <<>>
  /\ sh_sent = <<>>
  /\ sh_out = <<>>
  /\ sh_vm = <<>>
  /\ sh_pc = <<>>

BuildOff ==
  /\ bd_shuffled = <<>>
  /\ bd_v_tables = <<>>
  /\ bd_e_tables = <<>>
  /\ bd_schema = <<>>
  /\ bd_pc = "off"

\* a null std::shared_ptr<arrow::Table> where a table is a list of columns
NoTable == <<-1>>

SwapOff ==
  /\ sw_in = <<>>
  /\ sw_lhs = 0
  /\ sw_rhs = 0
  /\ sw_prior = NoTable
  /\ sw_out = NoTable
  /\ sw_status = ""
  /\ sw_pc = "off"

Init ==
  /\ \E n \in 1..MaxWorkers : \E inst \in InstanceChoices(n) :
       ProtocolInit(n, inst, EntryPc(LoadFragmentSteps[1]))
  /\ FileConstructor
  /\ SwapOff
  /\ SchemaOff
  /\ ShuffleOff
  /\ BuildOff

(* --------------------------- initPartitioner ---------------------------- *)

\* a fragment count taken from the worker's own rank
PartitionerInitArg_WorkerLocal(w) == w + 1

\* line 292: the fragment count worker w hands to partitioner_.Init
PartitionerInitArg(w) == fnum

\* the external vertex ids
Oids == 1..MaxOid

\* the hash of the HashPartitioner, as the end-to-end scenario has it: with two
\* fragments 1 and 3 are routed to fragment 0, 2 and 4 to fragment 1
StableHash(oid) == oid - 1

\* HashPartitioner::GetPartitionId of a partitioner initialised with n fragments
GetPartitionId(n, oid) == StableHash(oid) % n

\* lines 290-293, 319 (HASH_PARTITION): partitioner_.Init(comm_spec_.fnum())
initPartitioner(w) ==
  /\ pc[w] = "init_partitioner"
  /\ partitioner' = [partitioner EXCEPT ![w] = PartitionerInitArg(w)]
  /\ phases' = [phases EXCEPT ![w] = StartPhase(@, "partition_init")]
  /\ pc' = [pc EXCEPT ![w] = EntryPc(StepAfter("initPartitioner"))]
  /\ UNCHANGED <<cur, table, loaded, calls, arrived, result>>
  /\ UNCHANGED <<confVars, syncVars, storeVars, groupVars, fmVars, shVars, bdVars, swVars>>

(* ------------------- loadVertexTables / loadEdgeTables ------------------ *)

\* the supplied tables used as soon as one of the two lists is not empty
UseSupplied_Either(w) == partial_v_tables[w] # <<>> \/ partial_e_tables[w] # <<>>

\* line 325: !partial_v_tables_.empty() && !partial_e_tables_.empty()
UseSupplied(w) == partial_v_tables[w] # <<>> /\ partial_e_tables[w] # <<>>

\* lines 325-327, 338-341: the supplied tables go to the basic loader as they
\* are; loadVertexTables and loadEdgeTables are not called
initBasicLoader_Supplied(w) ==
  /\ pc[w] = EntryPc("initBasicLoader")
  /\ UseSupplied(w)
  /\ loaded' = [loaded EXCEPT ![w] = partial_v_tables[w] \o partial_e_tables[w]]
  /\ pc' = [pc EXCEPT ![w] = EntryPc(StepAfter("initBasicLoader"))]
  /\ UNCHANGED <<cur, table, partitioner, calls, phases, arrived, result>>
  /\ UNCHANGED <<confVars, syncVars, storeVars, groupVars, fmVars, shVars, bdVars, swVars>>

\* the error is noted but the loop goes on to read the shard again
ReadFailed_Retry(w) ==
  /\ pc' = pc
  /\ result' = [result EXCEPT ![w] = Error(ShardReadErrorCode)]
  /\ UNCHANGED table

\* lines 517-520, 329-334, 95-96: one of the three calls fails; VY_OK_OR_RAISE
\* returns the error from the loader, BOOST_LEAF_AUTO and BOOST_LEAF_CHECK hand
\* it up through initBasicLoader and LoadFragment
ReadFailed(w) ==
  /\ pc' = [pc EXCEPT ![w] = "done"]
  /\ result' = [result EXCEPT ![w] = Error(ShardReadErrorCode)]
  /\ UNCHANGED table

\* lines 517-520, 558-561: SetPartialRead, Open, ReadTable of one shard
ReadShard(w) ==
  /\ pc[w] = "read"
  /\ ~UseSupplied(w)
  /\ \/ ReadFailed(w)
     \/ \E t \in ReadOutcomes :
          /\ table' = [table EXCEPT ![w] = t]
          /\ pc' = [pc EXCEPT ![w] = "sync"]
          /\ UNCHANGED result
  /\ UNCHANGED <<cur, loaded, partitioner, calls, phases, arrived>>
  /\ UNCHANGED <<confVars, syncVars, storeVars, groupVars, fmVars, shVars, bdVars, swVars>>

\* lines 522-529: the table is stamped and stored, the loops go on; after the
\* last edge table initBasicLoader hands the tables to the basic loader
StoreAndAdvance(w, t) ==
  /\ table' = [table EXCEPT ![w] = t]
  /\ loaded' = [loaded EXCEPT ![w] = Append(@, Stamp(t, cur[w]))]
  /\ IF cur[w] < NumTables
       THEN /\ cur' = [cur EXCEPT ![w] = @ + 1]
            /\ pc' = [pc EXCEPT ![w] = "read"]
       ELSE /\ cur' = cur
            /\ pc' = [pc EXCEPT ![w] = EntryPc(StepAfter("initBasicLoader"))]

\* lines 527, 570 with table == nullptr: a call through a null pointer. The
\* process dies, or it goes on with whatever the call produced
NullTableDeref(w) ==
  \/ /\ pc' = [pc EXCEPT ![w] = "crashed"]
     /\ UNCHANGED <<cur, table, loaded>>
  \/ StoreAndAdvance(w, Garbage)

\* lines 521-529 after SyncSchema returned: its result is not looked at
AfterSyncSchema(w, t) ==
  IF t = Null THEN NullTableDeref(w) ELSE StoreAndAdvance(w, t)

\* lines 530-532: an exception inside the loops becomes an IOError
CatchException(w) ==
  /\ pc' = [pc EXCEPT ![w] = "done"]
  /\ result' = [result EXCEPT ![w] = Error("IOError")]
  /\ UNCHANGED <<cur, table, loaded>>

(* ------------------------------ SyncSchema ------------------------------ *)

\* lines 199-203: size of the serialized local schema, 0 without a table
SerializedSize(t) == IF t = Null THEN 0 ELSE Len(SerializeSchema(t.schema))

\* lines 223-229, 261-267: what a worker hands to MPI_Gatherv
GathervPayload(t) == IF SerializedSize(t) = 0 THEN <<>> ELSE SerializeSchema(t.schema)

\* lines 210-217: displs[i] is the sum of recvcounts[0..i-1]
RECURSIVE Displ(_, _)
Displ(recvcounts, i) ==
  IF i = 0 THEN 0 ELSE Displ(recvcounts, i - 1) + recvcounts[i - 1]

\* lines 210-217: total_len
TotalLen(recvcounts) == Displ(recvcounts, worker_num)

\* lines 221-230: total_string as MPI_Gatherv fills it, rank after rank
RECURSIVE TotalString(_, _)
TotalString(bytes, i) ==
  IF i = worker_num THEN <<>> ELSE bytes[i] \o TotalString(bytes, i + 1)

\* lines 231-245: the coordinator's `schemas` vector (element i + 1 is rank i)
GatheredSchemas(recvcounts, total_string) ==
  [j \in 1..worker_num |->
     IF recvcounts[j - 1] = 0 THEN NullSchema
     ELSE SchemaPtr(DeserializeSchema(SubSeq(total_string, Displ(recvcounts, j - 1) + 1,
                                             Displ(recvcounts, j - 1) + recvcounts[j - 1])))]

\* MPI_Gather / MPI_Gatherv at the root: complete when every rank has contributed
\* (buf[v] is the contribution of rank v, `none` before it is made)
GatherComplete(buf, none) == \A v \in Workers : buf[v] # none

\* a broadcast the non-root does not wait for
BcastReceived_NoWait(buf, none) == TRUE

\* MPI_Bcast at a non-root: complete when the root has broadcast
BcastReceived(buf, none) == buf # none

InSyncSchema(w) == pc[w] \in {"gather_wait", "gatherv", "gatherv_wait", "bcast_wait"}

\* the single-worker return never taken
IsSingleWorker_Never == FALSE

\* line 193: comm_spec.worker_num() == 1
IsSingleWorker == worker_num = 1

\* lines 191-208, 259-260: SyncSchema is entered; with one worker it returns at
\* once, otherwise the size goes into MPI_Gather
SyncSchema_Gather(w) ==
  /\ pc[w] = "sync"
  /\ phases' = [phases EXCEPT ![w] = StartPhase(@, "schema_sync")]
  /\ IF IsSingleWorker
       THEN /\ calls' = [calls EXCEPT ![w] = <<>>]
            /\ AfterSyncSchema(w, table[w])
            /\ UNCHANGED sent_size
       ELSE /\ calls' = [calls EXCEPT ![w] = <<"Gather">>]
            /\ sent_size' = [sent_size EXCEPT ![cur[w]][w] = SerializedSize(table[w])]
            /\ pc' = [pc EXCEPT ![w] = IF w = Coordinator THEN "gather_wait" ELSE "gatherv"]
            /\ UNCHANGED <<cur, table, loaded>>
  /\ UNCHANGED <<partitioner, arrived, result, sent_bytes, bcast, gathered, final_schema>>
  /\ UNCHANGED <<confVars, storeVars, groupVars, fmVars, shVars, bdVars, swVars>>

\* lines 261-267: a non-coordinator hands its bytes to MPI_Gatherv
SyncSchema_Gatherv(w) ==
  /\ pc[w] = "gatherv"
  /\ w # Coordinator
  /\ sent_bytes' = [sent_bytes EXCEPT ![cur[w]][w] = GathervPayload(table[w])]
  /\ calls' = [calls EXCEPT ![w] = Append(@, "Gatherv")]
  /\ pc' = [pc EXCEPT ![w] = "bcast_wait"]
  /\ UNCHANGED <<loadVars, phases, arrived, result, sent_size, bcast, gathered, final_schema>>
  /\ UNCHANGED <<confVars, storeVars, groupVars, fmVars, shVars, bdVars, swVars>>

\* lines 269-287: a non-coordinator receives both broadcasts, rebuilds the final
\* schema and reconciles its table; back in the loader the table is stamped
SyncSchema_BcastRecv(w) ==
  /\ pc[w] = "bcast_wait"
  /\ BcastReceived(bcast[cur[w]], NoBytes)
  /\ calls' = [calls EXCEPT ![w] = @ \o <<"Bcast", "Bcast">>]
  /\ LET t == Reconcile(table[w], DeserializeSchema(bcast[cur[w]]))
     IN  IF t = Thrown THEN CatchException(w)
         ELSE StoreAndAdvance(w, t) /\ UNCHANGED result
  /\ UNCHANGED <<partitioner, phases, arrived, syncVars>>
  /\ UNCHANGED <<confVars, storeVars, groupVars, fmVars, shVars, bdVars, swVars>>

\* lines 207-230: the coordinator's MPI_Gather is complete. With total_len == 0
\* SyncSchema returns the IOError, which the loader drops (lines 521, 562) before
\* it uses the null table; otherwise the coordinator enters MPI_Gatherv
SyncSchema_RootGathered(w) ==
  /\ pc[w] = "gather_wait"
  /\ GatherComplete(sent_size[cur[w]], NotSent)
  /\ IF TotalLen(sent_size[cur[w]]) = 0
       THEN /\ NullTableDeref(w)
            /\ UNCHANGED <<calls, sent_bytes>>
       ELSE /\ calls' = [calls EXCEPT ![w] = Append(@, "Gatherv")]
            /\ sent_bytes' = [sent_bytes EXCEPT ![cur[w]][w] = GathervPayload(table[w])]
            /\ pc' = [pc EXCEPT ![w] = "gatherv_wait"]
            /\ UNCHANGED <<cur, table, loaded>>
  /\ UNCHANGED <<partitioner, phases, arrived, result, sent_size, bcast, gathered, final_schema>>
  /\ UNCHANGED <<confVars, storeVars, groupVars, fmVars, shVars, bdVars, swVars>>

\* lines 231-257, 281-287: the coordinator's MPI_Gatherv is complete; it computes
\* the final schema, broadcasts it and reconciles its own table. A field(i)
\* outside a shorter schema reads past the vector: any schema may come out
SyncSchema_RootFinal(w) ==
  /\ pc[w] = "gatherv_wait"
  /\ GatherComplete(sent_bytes[cur[w]], NoBytes)
  /\ LET k == cur[w]
         schemas == GatheredSchemas(sent_size[k], TotalString(sent_bytes[k], 0))
     IN  \E fin \in (IF FieldAccessInRange(schemas) THEN FindMostCommonSchema(schemas)
                     ELSE SchemasOfLen(FirstFieldNum(schemas))) :
           /\ gathered' = [gathered EXCEPT ![k] = schemas]
           /\ final_schema' = [final_schema EXCEPT ![k] = SchemaPtr(fin)]
           /\ bcast' = [bcast EXCEPT ![k] = SerializeSchema(fin)]
           /\ calls' = [calls EXCEPT ![w] = @ \o <<"Bcast", "Bcast">>]
           /\ LET t == Reconcile(table[w], fin)
              IN  IF t = Thrown THEN CatchException(w)
                  ELSE StoreAndAdvance(w, t) /\ UNCHANGED result
  /\ UNCHANGED <<partitioner, phases, arrived, sent_size, sent_bytes>>
  /\ UNCHANGED <<confVars, storeVars, groupVars, fmVars, shVars, bdVars, swVars>>

(* ---------------------------- shuffleAndBuild --------------------------- *)

\* client.Seal on the worker's vineyard instance: a fresh object id there
SealObject(w, kind) ==
  /\ objects' = objects \cup {[inst |-> instance_id[w], id |-> next_id[instance_id[w]], kind |-> kind]}
  /\ next_id' = [next_id EXCEPT ![instance_id[w]] = @ + 1]

\* lines 345-346, 357-358: the worker enters the all-to-all exchange of the
\* vertex tables (x = "v") or of the edge tables (x = "e")
ShuffleEnter(w, x, at, wait, phase) ==
  /\ pc[w] = at
  /\ arrived' = [arrived EXCEPT ![x] = @ \cup {w}]
  /\ phases' = [phases EXCEPT ![w] = StartPhase(@, phase)]
  /\ pc' = [pc EXCEPT ![w] = wait]
  /\ UNCHANGED <<loadVars, calls, result>>
  /\ UNCHANGED <<confVars, syncVars, storeVars, groupVars, fmVars, shVars, bdVars, swVars>>

\* the exchange is complete once every worker has entered it; the shuffle
\* returns the owned tables or an error, which BOOST_LEAF_AUTO hands up
ShuffleDone(w, x, wait, after, code) ==
  /\ pc[w] = wait
  /\ arrived[x] = Workers
  /\ \/ /\ pc' = [pc EXCEPT ![w] = after]
        /\ UNCHANGED result
     \/ /\ pc' = [pc EXCEPT ![w] = "done"]
        /\ result' = [result EXCEPT ![w] = Error(code)]
  /\ UNCHANGED <<loadVars, calls, phases, arrived>>
  /\ UNCHANGED <<confVars, syncVars, storeVars, groupVars, fmVars, shVars, bdVars, swVars>>

ShuffleVertexTables_Enter(w) == ShuffleEnter(w, "v", "shuffle_v", "shuffle_v_wait", "vertex_shuffle")
ShuffleEdgeTables_Enter(w) == ShuffleEnter(w, "e", "shuffle_e", "shuffle_e_wait", "edge_shuffle")

\* the edge tables shuffled right after the vertex tables, with no vertex map
ShuffleVertexTables_Done_NoVertexMap(w) ==
  ShuffleDone(w, "v", "shuffle_v_wait", "shuffle_e", "ShuffleVertexTables")

ShuffleVertexTables_Done(w) == ShuffleDone(w, "v", "shuffle_v_wait", "build_vm", "ShuffleVertexTables")
ShuffleEdgeTables_Done(w) == ShuffleDone(w, "e", "shuffle_e_wait", "build_frag", "InvalidPartition")

\* lines 347-356: the vertex map is built from the oid lists and sealed
BuildVertexMap(w) ==
  /\ pc[w] = "build_vm"
  /\ SealObject(w, "vertex_map")
  /\ vm_id' = [vm_id EXCEPT ![w] = next_id[instance_id[w]]]
  /\ phases' = [phases EXCEPT ![w] = StartPhase(@, "vertex_map")]
  /\ pc' = [pc EXCEPT ![w] = "shuffle_e"]
  /\ UNCHANGED <<loadVars, calls, arrived, result, persisted, frag_id>>
  /\ UNCHANGED <<confVars, syncVars, groupVars, fmVars, shVars, bdVars, swVars>>

\* lines 359-439: the tables are put in label order, the graph schema is filled,
\* frag_builder.Init runs (its error is handed up) and the fragment is sealed
BuildFragment(w) ==
  /\ pc[w] = "build_frag"
  /\ phases' = [phases EXCEPT ![w] = StartPhase(@, "fragment")]
  /\ \/ /\ SealObject(w, "fragment")
        /\ frag_id' = [frag_id EXCEPT ![w] = next_id[instance_id[w]]]
        /\ pc' = [pc EXCEPT ![w] = "persist"]
        /\ UNCHANGED result
     \/ /\ pc' = [pc EXCEPT ![w] = "done"]
        /\ result' = [result EXCEPT ![w] = Error("FragmentBuilderInit")]
        /\ UNCHANGED <<next_id, objects, frag_id>>
  /\ UNCHANGED <<loadVars, calls, arrived, persisted, vm_id>>
  /\ UNCHANGED <<confVars, syncVars, groupVars, fmVars, shVars, bdVars, swVars>>

\* lines 441-442, 98-99, 103: Persist(frag->id()); a failure is a failed
\* VINEYARD_CHECK_OK, which leaves LoadFragment with no result. Otherwise
\* LoadFragment returns the id and constructFragmentGroup is next
PersistFragment(w) ==
  /\ pc[w] = "persist"
  /\ \/ /\ persisted' = persisted \cup {<<instance_id[w], frag_id[w]>>}
        /\ pc' = [pc EXCEPT ![w] = EntryPc(StepAfter("shuffleAndBuild"))]
     \/ /\ pc' = [pc EXCEPT ![w] = "threw"]
        /\ UNCHANGED persisted
  /\ UNCHANGED <<loadVars, calls, phases, arrived, result, next_id, objects, vm_id, frag_id>>
  /\ UNCHANGED <<confVars, syncVars, groupVars, fmVars, shVars, bdVars, swVars>>

(* ------------------------ constructFragmentGroup ------------------------ *)

\* comm_spec.FragToWorker(i): fragment i is served by worker i
FragToWorker(i) == i

\* a gather the coordinator leaves once its own contribution is in
GroupGatherComplete_RootOnly(buf) == buf[Coordinator] # NotSent

\* lines 457-463: the coordinator's MPI_Gather of the instance ids / fragment ids
GroupGatherComplete(buf) == GatherComplete(buf, NotSent)

InGroupCall(w) ==
  pc[w] \in {"cfg_g1_wait", "cfg_g2", "cfg_g2_wait", "cfg_persist", "cfg_bcast_wait"}

\* lines 450-459, 484-485: the worker enters and gathers its instance id
CFG_GatherInstance(w) ==
  /\ pc[w] = "cfg"
  /\ phases' = [phases EXCEPT ![w] = StartPhase(@, "group")]
  /\ calls' = [calls EXCEPT ![w] = <<"GatherInstance">>]
  /\ g_instance' = [g_instance EXCEPT ![w] = instance_id[w]]
  /\ pc' = [pc EXCEPT ![w] = IF w = Coordinator THEN "cfg_g1_wait" ELSE "cfg_g2"]
  /\ UNCHANGED <<loadVars, arrived, result, g_frag, group, group_bcast>>
  /\ UNCHANGED <<confVars, syncVars, storeVars, fmVars, shVars, bdVars, swVars>>

\* lines 461-463, 486-487: the fragment id is gathered; the coordinator gets here
\* when its first gather is complete
CFG_GatherFrag(w) ==
  /\ \/ pc[w] = "cfg_g2"
     \/ /\ pc[w] = "cfg_g1_wait"
        /\ GroupGatherComplete(g_instance)
  /\ calls' = [calls EXCEPT ![w] = Append(@, "GatherFrag")]
  /\ g_frag' = [g_frag EXCEPT ![w] = frag_id[w]]
  /\ pc' = [pc EXCEPT ![w] = IF w = Coordinator THEN "cfg_g2_wait" ELSE "cfg_bcast_wait"]
  /\ UNCHANGED <<loadVars, phases, arrived, result, g_instance, group, group_bcast>>
  /\ UNCHANGED <<confVars, syncVars, storeVars, fmVars, shVars, bdVars, swVars>>

\* every entry filled from the coordinator's own slot of the gathered vectors
GroupEntries_OwnSlot(object_ids, instance_ids) ==
  [j \in 1..fnum |->
     [fid |-> j - 1, object_id |-> object_ids[Coordinator],
      instance_id |-> instance_ids[Coordinator]]]

\* lines 469-473: one AddFragmentObject per fragment id, from the gathered vectors
GroupEntries(object_ids, instance_ids) ==
  [j \in 1..fnum |->
     [fid |-> j - 1, object_id |-> object_ids[FragToWorker(j - 1)],
      instance_id |-> instance_ids[FragToWorker(j - 1)]]]

\* lines 465-477: the second gather is complete; the coordinator fills the
\* builder and seals the group
CFG_BuildGroup(w) ==
  /\ pc[w] = "cfg_g2_wait"
  /\ GroupGatherComplete(g_frag)
  /\ SealObject(w, "group")
  /\ group' = [id |-> next_id[instance_id[w]], inst |-> instance_id[w],
               total_frag_num |-> fnum, vertex_label_num |-> VertexLabelNum,
               edge_label_num |-> EdgeLabelNum,
               fragments |-> GroupEntries(g_frag, g_instance)]
  /\ pc' = [pc EXCEPT ![w] = "cfg_persist"]
  /\ UNCHANGED <<loadVars, calls, phases, arrived, result, persisted, vm_id, frag_id,
                 g_instance, g_frag, group_bcast>>
  /\ UNCHANGED <<confVars, syncVars, fmVars, shVars, bdVars, swVars>>

\* the group is persisted and its id returned, but never broadcast
CFG_PersistAndBcast_NoBcast(w) ==
  /\ pc[w] = "cfg_persist"
  /\ pc' = [pc EXCEPT ![w] = "done"]
  /\ persisted' = persisted \cup {<<group.inst, group.id>>}
  /\ result' = [result EXCEPT ![w] = Ok(group.id)]
  /\ UNCHANGED <<group_bcast, calls>>
  /\ UNCHANGED <<loadVars, phases, arrived, next_id, objects, vm_id, frag_id,
                 g_instance, g_frag, group>>
  /\ UNCHANGED <<confVars, syncVars, fmVars, shVars, bdVars, swVars>>

\* lines 478-481, 492: Persist(group_object_id); on failure VY_OK_OR_RAISE
\* returns before the broadcast, otherwise the id is broadcast and returned
CFG_PersistAndBcast(w) ==
  /\ pc[w] = "cfg_persist"
  /\ pc' = [pc EXCEPT ![w] = "done"]
  /\ \/ /\ persisted' = persisted \cup {<<group.inst, group.id>>}
        /\ group_bcast' = group.id
        /\ calls' = [calls EXCEPT ![w] = Append(@, "Bcast")]
        /\ result' = [result EXCEPT ![w] = Ok(group.id)]
     \/ /\ result' = [result EXCEPT ![w] = Error("PersistGroup")]
        /\ UNCHANGED <<persisted, group_bcast, calls>>
  /\ UNCHANGED <<loadVars, phases, arrived, next_id, objects, vm_id, frag_id,
                 g_instance, g_frag, group>>
  /\ UNCHANGED <<confVars, syncVars, fmVars, shVars, bdVars, swVars>>

\* lines 489-492: a non-coordinator receives the group id and returns it
CFG_BcastRecv(w) ==
  /\ pc[w] = "cfg_bcast_wait"
  /\ BcastReceived(group_bcast, NotSent)
  /\ calls' = [calls EXCEPT ![w] = Append(@, "Bcast")]
  /\ result' = [result EXCEPT ![w] = Ok(group_bcast)]
  /\ pc' = [pc EXCEPT ![w] = "done"]
  /\ UNCHANGED <<loadVars, phases, arrived>>
  /\ UNCHANGED <<confVars, syncVars, storeVars, groupVars, fmVars, shVars, bdVars, swVars>>

(* ---------------------------- specification ----------------------------- *)

Next ==
  \/ \E w \in Workers : initPartitioner(w)
  \/ \E w \in Workers : ReadShard(w)
  \/ \E w \in Workers : SyncSchema_Gather(w)
  \/ \E w \in Workers : SyncSchema_Gatherv(w)
  \/ \E w \in Workers : SyncSchema_BcastRecv(w)
  \/ \E w \in Workers : SyncSchema_RootGathered(w)
  \/ \E w \in Workers : SyncSchema_RootFinal(w)
  \/ \E w \in Workers : ShuffleVertexTables_Enter(w)
  \/ \E w \in Workers : ShuffleVertexTables_Done(w)
  \/ \E w \in Workers : BuildVertexMap(w)
  \/ \E w \in Workers : ShuffleEdgeTables_Enter(w)
  \/ \E w \in Workers : ShuffleEdgeTables_Done(w)
  \/ \E w \in Workers : BuildFragment(w)
  \/ \E w \in Workers : PersistFragment(w)
  \/ \E w \in Workers : CFG_GatherInstance(w)
  \/ \E w \in Workers : CFG_GatherFrag(w)
  \/ \E w \in Workers : CFG_BuildGroup(w)
  \/ \E w \in Workers : CFG_PersistAndBcast(w)
  \/ \E w \in Workers : CFG_BcastRecv(w)

Spec == Init /\ [][Next]_vars

\* every worker is a process of its own that keeps running: a step that stays
\* possible is taken in the end
SpecLive == Init /\ [][Next]_vars /\ WF_vars(Next)

(* ------------- initBasicLoader of a loader given tables ----------------- *)

\* the lists a caller can hand to the constructor of lines 77-90: none, or num
\* tables of some schema
SuppliedTables(num) ==
  {<<>>} \cup [1..num -> { Table(s, n) : s \in SchemasOfLen(NumFields), n \in 1..MaxRows }]

\* lines 77-90: every worker constructs its loader with two lists of tables,
\* either of which may be empty
InitPartial ==
  /\ \E n \in 1..MaxWorkers :
       /\ ProtocolInit(n, [w \in 0..(n - 1) |-> 0], EntryPc(LoadFragmentSteps[1]))
       /\ partial_v_tables \in [0..(n - 1) -> SuppliedTables(NumVertexTables)]
       /\ partial_e_tables \in [0..(n - 1) -> SuppliedTables(NumEdgeTables)]
  /\ SwapOff
  /\ SchemaOff
  /\ ShuffleOff
  /\ BuildOff

\* lines 95-96: initPartitioner and initBasicLoader, up to the return of the latter
NextPartial ==
  \/ \E w \in Workers : initPartitioner(w)
  \/ \E w \in Workers : initBasicLoader_Supplied(w)
  \/ \E w \in Workers : ReadShard(w)
  \/ \E w \in Workers : SyncSchema_Gather(w)
  \/ \E w \in Workers : SyncSchema_Gatherv(w)
  \/ \E w \in Workers : SyncSchema_BcastRecv(w)
  \/ \E w \in Workers : SyncSchema_RootGathered(w)
  \/ \E w \in Workers : SyncSchema_RootFinal(w)

SpecPartial == InitPartial /\ [][NextPartial]_vars

(* ------------------- FindMostCommonSchema taken alone ------------------- *)

\* any schema of at most MaxSchemaFields fields, or none
SchemaOrNull ==
  {NullSchema} \cup { SchemaPtr(s) : s \in UNION { SchemasOfLen(n) : n \in 0..MaxSchemaFields } }

\* the arguments SyncSchema can pass: one entry per worker, more than one
\* worker, not all of them null (total_len > 0)
InitSchema ==
  /\ ProtocolInit(1, [w \in {0} |-> 0], "off")
  /\ FileConstructor
  /\ SwapOff
  /\ \E n \in 2..MaxSchemas : fm_schemas \in [1..n -> SchemaOrNull]
  /\ \E j \in 1..Len(fm_schemas) : ~fm_schemas[j].null
  /\ fm_result = NullSchema
  /\ fm_pc = "call"
  /\ ShuffleOff
  /\ BuildOff

\* line 247: final_schema = FindMostCommonSchema(schemas)
CallFindMostCommonSchema ==
  /\ fm_pc = "call"
  /\ FieldAccessInRange(fm_schemas)
  /\ fm_result' \in { SchemaPtr(s) : s \in FindMostCommonSchema(fm_schemas) }
  /\ fm_pc' = "returned"
  /\ UNCHANGED <<fm_schemas, confVars, pc, loadVars, calls, phases, syncVars, arrived,
                 storeVars, groupVars, result, shVars, bdVars, swVars>>

\* line 154 with a schema shorter than the first one: field(i) is read past the
\* end of the vector; the process dies or some field comes out
CallFindMostCommonSchemaOutOfRange ==
  /\ fm_pc = "call"
  /\ ~FieldAccessInRange(fm_schemas)
  /\ \/ /\ fm_result' = NullSchema
        /\ fm_pc' = "crashed"
     \/ /\ fm_result' \in { SchemaPtr(s) : s \in SchemasOfLen(FirstFieldNum(fm_schemas)) }
        /\ fm_pc' = "undefined"
  /\ UNCHANGED <<fm_schemas, confVars, pc, loadVars, calls, phases, syncVars, arrived,
                 storeVars, groupVars, result, shVars, bdVars, swVars>>

NextSchema == CallFindMostCommonSchema \/ CallFindMostCommonSchemaOutOfRange

SpecSchema == InitSchema /\ [][NextSchema]_vars

(* ------------- the shuffle of one vertex table and the vertex map -------- *)

\* the sequences without repetition over the set s
RECURSIVE Arrangements(_)
Arrangements(s) ==
  IF s = {} THEN {<<>>}
  ELSE UNION { { <<x>> \o a : a \in Arrangements(s \ {x}) } : x \in s }

\* the rows of one vertex table as the workers read them: an id is unique within
\* its label, so it is in the shard of at most one worker (0: of none)
ShardsOf(n) ==
  UNION { { f \in [0..(n - 1) -> UNION { Arrangements(s) : s \in SUBSET Oids }] :
              \A w \in 0..(n - 1) : { f[w][i] : i \in 1..Len(f[w]) } = { o \in Oids : place[o] = w + 1 } } :
          place \in [Oids -> 0..n] }

\* nothing handed to the exchange yet
NoRows == <<-1>>

\* the state when shuffleAndBuild is entered: every worker has initialised its
\* partitioner and holds its loaded table
InitShuffle ==
  /\ \E n \in 1..MaxWorkers :
       /\ ProtocolInit(n, [w \in 0..(n - 1) |-> 0], "off")
       /\ FileConstructor
       /\ SwapOff
       /\ sh_in \in ShardsOf(n)
       /\ sh_sent = [w \in 0..(n - 1) |-> [d \in 0..(n - 1) |-> NoRows]]
       /\ sh_out = [w \in 0..(n - 1) |-> <<>>]
       /\ sh_vm = [w \in 0..(n - 1) |-> <<>>]
       /\ sh_pc = [w \in 0..(n - 1) |-> "init_partitioner"]
  /\ sh_table \in 1..NumVertexTables
  /\ SchemaOff
  /\ BuildOff

protocolVars ==
  <<confVars, pc, cur, table, loaded, calls, phases, syncVars, arrived, storeVars,
    groupVars, result>>

\* line 292, before the shuffle
Shuffle_initPartitioner(w) ==
  /\ sh_pc[w] = "init_partitioner"
  /\ partitioner' = [partitioner EXCEPT ![w] = PartitionerInitArg(w)]
  /\ sh_pc' = [sh_pc EXCEPT ![w] = "send"]
  /\ UNCHANGED <<protocolVars, fmVars, bdVars, swVars, sh_table, sh_in, sh_sent, sh_out, sh_vm>>

\* rows routed by their position in place of their id
RowsFor_ByPosition(rows, n, d) ==
  LET RECURSIVE pick(_)
      pick(i) == IF i > Len(rows) THEN <<>>
                 ELSE (IF (i - 1) % n = d THEN <<rows[i]>> ELSE <<>>) \o pick(i + 1)
  IN  pick(1)

\* the rows a worker batches for destination d: those the partitioner gives to
\* fragment d, in their order
RowsFor(rows, n, d) == SelectSeq(rows, LAMBDA o : GetPartitionId(n, o) = d)

\* lines 345-346: the worker batches its rows by destination and enters the
\* all-to-all exchange
ShuffleVertexTable_Send(w) ==
  /\ sh_pc[w] = "send"
  /\ sh_sent' = [sh_sent EXCEPT ![w] = [d \in Workers |-> RowsFor(sh_in[w], partitioner[w], d)]]
  /\ sh_pc' = [sh_pc EXCEPT ![w] = "recv"]
  /\ UNCHANGED <<protocolVars, partitioner, fmVars, bdVars, swVars, sh_table, sh_in, sh_out, sh_vm>>

\* what worker w holds after the exchange: the batches for w, by source rank
RECURSIVE RowsReceived(_, _, _)
RowsReceived(sent, w, v) ==
  IF v = worker_num THEN <<>> ELSE sent[v][w] \o RowsReceived(sent, w, v + 1)

\* lines 345-347: the exchange is complete when every worker has entered it; the
\* worker then owns the rows routed to it
ShuffleVertexTable_Recv(w) ==
  /\ sh_pc[w] = "recv"
  /\ \A v \in Workers : sh_sent[v][w] # NoRows
  /\ sh_out' = [sh_out EXCEPT ![w] = RowsReceived(sh_sent, w, 0)]
  /\ sh_pc' = [sh_pc EXCEPT ![w] = "vertex_map"]
  /\ UNCHANGED <<protocolVars, partitioner, fmVars, bdVars, swVars, sh_table, sh_in, sh_sent, sh_vm>>

\* a global id: the fragment in the high bits, the offset in the low OffsetBits
Gid(fid, offset) == fid * (2 ^ OffsetBits) + offset
GidFid(gid) == gid \div (2 ^ OffsetBits)
GidOffset(gid) == gid % (2 ^ OffsetBits)

\* no global id: the id is owned by no fragment
NoGid == -1

\* the rank of an id counted from 1
GetGid_RankFromOne(vm, fid, oid) ==
  IF \E i \in 1..Len(vm[fid]) : vm[fid][i] = oid
    THEN Gid(fid, CHOOSE i \in 1..Len(vm[fid]) : vm[fid][i] = oid)
    ELSE NoGid

\* ArrowVertexMap::GetGid(fid, oid): the offset is the rank of the id in the
\* owned list of fragment fid
GetGid(vm, fid, oid) ==
  IF \E i \in 1..Len(vm[fid]) : vm[fid][i] = oid
    THEN Gid(fid, (CHOOSE i \in 1..Len(vm[fid]) : vm[fid][i] = oid) - 1)
    ELSE NoGid

\* lines 347-353: the owned id lists of all fragments are gathered into the
\* vertex map, which every worker reads back from the store
Shuffle_BuildVertexMap(w) ==
  /\ sh_pc[w] = "vertex_map"
  /\ \A v \in Workers : sh_pc[v] \in {"vertex_map", "done"}
  /\ sh_vm' = [sh_vm EXCEPT ![w] = [f \in Workers |-> sh_out[f]]]
  /\ sh_pc' = [sh_pc EXCEPT ![w] = "done"]
  /\ UNCHANGED <<protocolVars, partitioner, fmVars, bdVars, swVars, sh_table, sh_in, sh_sent, sh_out>>

NextShuffle ==
  \/ \E w \in Workers : Shuffle_initPartitioner(w)
  \/ \E w \in Workers : ShuffleVertexTable_Send(w)
  \/ \E w \in Workers : ShuffleVertexTable_Recv(w)
  \/ \E w \in Workers : Shuffle_BuildVertexMap(w)

SpecShuffle == InitShuffle /\ [][NextShuffle]_vars

(* ------------- the re-indexing and the graph schema taken alone ---------- *)

\* lines 501-528: the tables vector loadVertexTables returns for `files` entries
\* of the file list and label_num labels, table k having schema schemas[k]
LoadedVertexTables(files, label_num, schemas) ==
  [k \in 1..(files * label_num) |->
     [Table(schemas[k], MaxRows) EXCEPT !.meta = VertexMeta((k - 1) % label_num)]]

\* an edge table has the two id columns before its properties
EdgeSchema(s) ==
  <<[name |-> ColName(1), type |-> "int64"], [name |-> ColName(2), type |-> "int64"]>>
    \o [i \in 1..Len(s) |-> [name |-> ColName(i + 2), type |-> s[i].type]]

\* lines 542-570: the tables vector loadEdgeTables returns
LoadedEdgeTables(files, label_num, schemas) ==
  [k \in 1..(files * label_num) |->
     [Table(EdgeSchema(schemas[k]), MaxRows) EXCEPT !.meta = EdgeMeta((k - 1) % label_num)]]

Reverse(s) == [i \in 1..Len(s) |-> s[Len(s) + 1 - i]]

\* a shuffle returns one table for each table it was given, schema and metadata
\* kept; the order of arrival need not be the order of the labels
ArrivalOrders(tables) == {tables, Reverse(tables)}

\* the state when line 359 is reached, for any file list and label numbers
InitBuild ==
  /\ ProtocolInit(1, [w \in {0} |-> 0], "off")
  /\ FileConstructor
  /\ SwapOff
  /\ SchemaOff
  /\ ShuffleOff
  /\ \E files \in 1..MaxFiles : \E v_label_num, e_label_num \in 1..MaxLabels :
       \E vs \in [1..(files * v_label_num) -> SchemasOfLen(NumFields)] :
         \E es \in [1..(files * e_label_num) -> SchemasOfLen(NumFields)] :
           \E lv \in ArrivalOrders(LoadedVertexTables(files, v_label_num, vs)) :
             \E le \in ArrivalOrders(LoadedEdgeTables(files, e_label_num, es)) :
               bd_shuffled = [v |-> lv, e |-> le]
  /\ bd_v_tables = <<>>
  /\ bd_e_tables = <<>>
  /\ bd_schema = <<>>
  /\ bd_pc = "rearrange_v"

\* lines 366-373, 378-385: every table is stored at the slot its label_index
\* names; `slots` starts as the resized vector of null pointers
RECURSIVE Rearranged(_, _, _)
Rearranged(tables, i, slots) ==
  IF i > Len(tables) THEN slots
  ELSE Rearranged(tables, i + 1, [slots EXCEPT ![tables[i].meta.label_index + 1] = tables[i]])

\* lines 364-374: local_v_tables is re-indexed
RearrangeVertexTables ==
  /\ bd_pc = "rearrange_v"
  /\ bd_v_tables' = Rearranged(bd_shuffled.v, 1, [i \in 1..Len(bd_shuffled.v) |-> Null])
  /\ bd_pc' = "rearrange_e"
  /\ UNCHANGED <<protocolVars, partitioner, fmVars, shVars, swVars, bd_shuffled, bd_e_tables, bd_schema>>

\* lines 376-386: local_e_tables is re-indexed
RearrangeEdgeTables ==
  /\ bd_pc = "rearrange_e"
  /\ bd_e_tables' = Rearranged(bd_shuffled.e, 1, [i \in 1..Len(bd_shuffled.e) |-> Null])
  /\ bd_pc' = "schema"
  /\ UNCHANGED <<protocolVars, partitioner, fmVars, shVars, swVars, bd_shuffled, bd_v_tables, bd_schema>>

\* lines 393-405: the entry of a vertex table; every column is a property
VertexEntry(t) ==
  [label |-> t.meta.label, type |-> t.meta.type, relations |-> <<>>, props |-> t.schema]

\* lines 415-426: the relations of an edge table: one for every i below
\* sub_label_num whose src_label_i and dst_label_i are both there
Relations(meta) ==
  IF meta.sub_label_num = -1 THEN <<>>
  ELSE IF meta.sub_label_num >= 1 /\ meta.src_label_0 # "" /\ meta.dst_label_0 # ""
    THEN <<<<meta.src_label_0, meta.dst_label_0>>>>
    ELSE <<>>

\* lines 408-431: the entry of an edge table; the two id columns are skipped
EdgeEntry(t) ==
  [label |-> t.meta.label, type |-> t.meta.type, relations |-> Relations(t.meta),
   props |-> SubSeq(t.schema, 3, Len(t.schema))]

\* lines 389-433: the PropertyGraphSchema is filled from the re-indexed tables.
\* A slot left null is called through (table->schema()): the process dies, or
\* goes on with whatever the call produced
BuildSchema ==
  /\ bd_pc = "schema"
  /\ IF /\ \A i \in 1..Len(bd_v_tables) : bd_v_tables[i] # Null
        /\ \A j \in 1..Len(bd_e_tables) : bd_e_tables[j] # Null
       THEN /\ bd_schema' = [i \in 1..Len(bd_v_tables) |-> VertexEntry(bd_v_tables[i])]
                               \o [i \in 1..Len(bd_e_tables) |-> EdgeEntry(bd_e_tables[i])]
            /\ bd_pc' = "done"
       ELSE \/ /\ bd_pc' = "crashed"
               /\ UNCHANGED bd_schema
            \/ /\ bd_schema' =
                    [i \in 1..Len(bd_v_tables) |->
                       VertexEntry(IF bd_v_tables[i] = Null THEN Garbage ELSE bd_v_tables[i])]
                    \o [i \in 1..Len(bd_e_tables) |->
                          EdgeEntry(IF bd_e_tables[i] = Null THEN Garbage ELSE bd_e_tables[i])]
               /\ bd_pc' = "done"
  /\ UNCHANGED <<protocolVars, partitioner, fmVars, shVars, swVars, bd_shuffled, bd_v_tables, bd_e_tables>>

NextBuild == RearrangeVertexTables \/ RearrangeEdgeTables \/ BuildSchema

SpecBuild == InitBuild /\ [][NextBuild]_vars

(* ================================ claims ================================ *)

\* worker w has entered SyncSchema for table k (its first act there is MPI_Gather)
EnteredSync(w, k) == sent_size[k][w] # NotSent

\* worker w has entered SyncSchema for table k and is no longer inside it
LeftSync(w, k) == EnteredSync(w, k) /\ ~(cur[w] = k /\ InSyncSchema(w))

\* worker w holds a reconciled, stamped table number k
HasTable(w, k) == Len(loaded[w]) >= k /\ loaded[w][k].state = "table"

\* C1: with more than one worker, every worker that has been through SyncSchema
\* for a table has called Gather, Gatherv, Bcast, Bcast there, and no worker
\* waits in a broadcast of a SyncSchema the coordinator has left without
\* broadcasting.
C1_SameCollectives ==
  worker_num > 1 =>
    \A w \in Workers : \A k \in TableIds :
      /\ (LeftSync(w, k) /\ cur[w] = k) => calls[w] = <<"Gather", "Gatherv", "Bcast", "Bcast">>
      /\ ~(/\ pc[w] = "bcast_wait"
           /\ cur[w] = k
           /\ LeftSync(Coordinator, k)
           /\ bcast[k] = NoBytes)

\* C2: with more than one worker, when every worker gathered size 0 for a table,
\* the coordinator's load has ended with the IOError and it has stored no table
\* for that slot nor gone on.
C2_AllEmptyIsIOError ==
  worker_num > 1 =>
    \A k \in TableIds :
      ((\A w \in Workers : sent_size[k][w] = 0) /\ LeftSync(Coordinator, k)) =>
        /\ pc[Coordinator] = "done"
        /\ result[Coordinator] = Error("IOError")
        /\ Len(loaded[Coordinator]) < k

\* C3: with more than one worker, every worker that came back from SyncSchema
\* with a table holds the schema the coordinator computed with
\* FindMostCommonSchema from the gathered schemas.
C3_AgreedSchema ==
  worker_num > 1 =>
    \A k \in TableIds : \A w \in Workers :
      HasTable(w, k) =>
        /\ ~final_schema[k].null
        /\ Len(gathered[k]) = worker_num
        /\ final_schema[k].fields \in FindMostCommonSchema(gathered[k])
        /\ loaded[w][k].schema = final_schema[k].fields

\* C3 witness: all workers are back from the first SyncSchema, and one of them
\* had contributed a schema other than the final one
C3_Witness ==
  /\ worker_num > 1
  /\ \A w \in Workers : HasTable(w, 1)
  /\ \E j \in 1..Len(gathered[1]) : gathered[1][j] # final_schema[1]
  /\ \E j \in 1..Len(gathered[1]) : gathered[1][j].null

\* the non-null entries of a schemas vector
NonNull(schemas) == { j \in 1..Len(schemas) : ~schemas[j].null }

\* all non-null schemas have the same number of fields
SameFieldNum(schemas) ==
  \A i, j \in NonNull(schemas) : Len(schemas[i].fields) = Len(schemas[j].fields)

\* how many non-null schemas have type t at position i
CountAt(schemas, i, t) ==
  Cardinality({ j \in NonNull(schemas) : schemas[j].fields[i].type = t })

\* C4: for schemas of one common field count, the type FindMostCommonSchema
\* returns at every position is one of the most frequent types there, and among
\* equally frequent ones the first by type string.
C4_ModalType ==
  (fm_pc = "returned" /\ SameFieldNum(fm_schemas)) =>
    /\ ~fm_result.null
    /\ Len(fm_result.fields) = FirstFieldNum(fm_schemas)
    /\ \A i \in 1..Len(fm_result.fields) :
         LET t == fm_result.fields[i].type
         IN  \A u \in Types :
               /\ CountAt(fm_schemas, i, u) <= CountAt(fm_schemas, i, t)
               /\ (u # t /\ CountAt(fm_schemas, i, u) = CountAt(fm_schemas, i, t))
                    => StrLess(TypeToString(t), TypeToString(u))

\* C4 witness: three schemas with a field; the type two of them have has won
\* against the type of the third, which sorts before it
C4_Witness ==
  /\ fm_pc = "returned"
  /\ SameFieldNum(fm_schemas)
  /\ Cardinality(NonNull(fm_schemas)) = 3
  /\ Len(fm_result.fields) >= 1
  /\ \E i \in 1..Len(fm_result.fields) :
       /\ CountAt(fm_schemas, i, fm_result.fields[i].type) = 2
       /\ \E u \in Types : /\ CountAt(fm_schemas, i, u) = 1
                           /\ StrLess(TypeToString(u), TypeToString(fm_result.fields[i].type))

\* every worker contributed the schema s to the SyncSchema of table k
AllContributed(k, s) ==
  /\ Len(gathered[k]) = worker_num
  /\ \A j \in 1..worker_num : gathered[k][j] = SchemaPtr(s)

\* worker w left the loader through the catch clause while at table k, after it
\* had entered SyncSchema there
ThrewAt(w, k) ==
  /\ cur[w] = k /\ Len(loaded[w]) < k /\ EnteredSync(w, k)
  /\ pc[w] = "done" /\ result[w].kind = "error"

\* C5: when all workers contributed the same schema S to a SyncSchema, the final
\* schema and the broadcast bytes are those of S, no worker fails to reconcile,
\* and every worker's stored table has schema S.
C5_Idempotent ==
  \A k \in TableIds : \A s \in SchemasOfLen(NumFields) :
    AllContributed(k, s) =>
      /\ final_schema[k] = SchemaPtr(s)
      /\ bcast[k] = SerializeSchema(s)
      /\ \A w \in Workers :
           /\ ~ThrewAt(w, k)
           /\ Len(loaded[w]) >= k =>
                (loaded[w][k].state = "table" /\ loaded[w][k].schema = s)

\* C5 witness: more than one worker, all contributed the same schema to the
\* first SyncSchema and all have stored their table
C5_Witness ==
  /\ worker_num > 1
  /\ \E s \in SchemasOfLen(NumFields) : AllContributed(1, s)
  /\ \A w \in Workers : HasTable(w, 1)

\* for table k worker e alone contributed no schema, all others contributed s
OneEmpty(k, e, s) ==
  /\ Len(gathered[k]) = worker_num
  /\ gathered[k][e + 1].null
  /\ \A v \in Workers \ {e} : gathered[k][v + 1] = SchemaPtr(s)

ClaimedRank(name) ==
  CASE name = "schema_sync" -> 1
    [] name = "partition_init" -> 2
    [] name \in {"vertex_shuffle", "edge_shuffle"} -> 3
    [] name = "vertex_map" -> 4
    [] name = "fragment" -> 5
    [] name = "group" -> 6

PhaseOrder ==
  <<"partition_init", "schema_sync", "vertex_shuffle", "vertex_map", "edge_shuffle",
    "fragment", "group">>

EnteredGroup(w) == g_instance[w] # NotSent

\* worker w has entered constructFragmentGroup and returned from it
LeftGroup(w) == EnteredGroup(w) /\ pc[w] = "done"

\* C8: with more than one worker, a worker is out of SyncSchema for a table only
\* when all workers have entered SyncSchema for that table, and out of
\* constructFragmentGroup only when all workers have entered it.
C8_PhaseBoundary ==
  worker_num > 1 =>
    \A w \in Workers :
      /\ \A k \in TableIds : LeftSync(w, k) => \A v \in Workers : EnteredSync(v, k)
      /\ LeftGroup(w) => \A v \in Workers : EnteredGroup(v)

\* C8 witness: more than one worker, every worker is out of the SyncSchema of the
\* last table and a worker has returned from constructFragmentGroup
C8_Witness ==
  /\ worker_num > 1
  /\ \A w \in Workers : LeftSync(w, NumTables)
  /\ \E w \in Workers : LeftGroup(w)

\* C9: whenever the group object exists, every worker has sealed and persisted
\* its fragment, and every entry of the group names a persisted fragment object.
C9_GroupAfterPersist ==
  group.id # 0 =>
    /\ \A w \in Workers :
         /\ frag_id[w] # 0
         /\ <<instance_id[w], frag_id[w]>> \in persisted
    /\ \A j \in 1..Len(group.fragments) :
         /\ <<group.fragments[j].instance_id, group.fragments[j].object_id>> \in persisted
         /\ [inst |-> group.fragments[j].instance_id, id |-> group.fragments[j].object_id,
             kind |-> "fragment"] \in objects

\* C9 witness: more than one worker and the group object is built
C9_Witness == worker_num > 1 /\ group.id # 0 /\ Len(group.fragments) = worker_num

\* C10: the group holds one entry per fragment id 0..fnum-1, entry i being the
\* instance id and fragment id of worker FragToWorker(i); the entries are
\* pairwise distinct; all workers that returned a group id returned the id of
\* that group.
C10_GroupContents ==
  /\ group.id # 0 =>
       /\ Len(group.fragments) = fnum
       /\ group.total_frag_num = fnum
       /\ \A j \in 1..fnum :
            /\ group.fragments[j].fid = j - 1
            /\ group.fragments[j].object_id = frag_id[FragToWorker(j - 1)]
            /\ group.fragments[j].instance_id = instance_id[FragToWorker(j - 1)]
       /\ \A i, j \in 1..fnum :
            i # j => <<group.fragments[i].instance_id, group.fragments[i].object_id>>
                       # <<group.fragments[j].instance_id, group.fragments[j].object_id>>
  /\ \A w \in Workers :
       (result[w].kind = "ok") => (group.id # 0 /\ result[w].id = group.id)

\* C10 witness: more than one worker, all returned the group id; two of them
\* are clients of different vineyard instances and hold equal fragment ids
C10_Witness ==
  /\ worker_num > 1
  /\ \A w \in Workers : result[w].kind = "ok"
  /\ \E v, w \in Workers : instance_id[v] # instance_id[w] /\ frag_id[v] = frag_id[w]

\* worker w is back from the exchange of the vertex table
ShuffleReturned(w) == sh_pc[w] \in {"vertex_map", "done"}

\* the places (worker, row number) where id o stands in the tables t
PlacesOf(t, o) == { <<w, i>> \in Workers \X (1..MaxOid) : i <= Len(t[w]) /\ t[w][i] = o }

\* C11: after the vertex shuffle every id in the table a worker owns is given to
\* that worker by GetPartitionId, and once all workers are back every input row
\* stands in the output tables exactly as often as in the input tables, that is
\* once, on one worker.
C11_ShuffleOwnership ==
  /\ \A w \in Workers :
       ShuffleReturned(w) =>
         \A i \in 1..Len(sh_out[w]) : GetPartitionId(fnum, sh_out[w][i]) = w
  /\ (\A w \in Workers : ShuffleReturned(w)) =>
       \A o \in Oids :
         /\ Cardinality(PlacesOf(sh_out, o)) = Cardinality(PlacesOf(sh_in, o))
         /\ Cardinality(PlacesOf(sh_out, o)) <= 1

\* C11 witness: two workers are back from the exchange, a row has changed
\* hands, and a worker owns rows that two different workers had read
C11_Witness ==
  /\ worker_num > 1
  /\ \A w \in Workers : ShuffleReturned(w)
  /\ \E w \in Workers : \E i \in 1..Len(sh_out[w]) : PlacesOf(sh_in, sh_out[w][i]) \cap ({w} \X (1..MaxOid)) = {}
  /\ \E w \in Workers : \E i, j \in 1..Len(sh_out[w]) :
       \E u, v \in Workers :
         /\ u # v
         /\ PlacesOf(sh_in, sh_out[w][i]) \cap ({u} \X (1..MaxOid)) # {}
         /\ PlacesOf(sh_in, sh_out[w][j]) \cap ({v} \X (1..MaxOid)) # {}

\* the vertex map of worker w is sealed in the store of its instance
VertexMapSealed(w) ==
  /\ vm_id[w] # 0
  /\ [inst |-> instance_id[w], id |-> vm_id[w], kind |-> "vertex_map"] \in objects

\* C12: a worker builds its vertex map only when it is back from the vertex
\* shuffle, which all workers have then entered, and it enters the edge shuffle
\* only with its vertex map sealed; a worker that is building or has built its
\* fragment has been through the edge shuffle.
C12_VertexMapBetweenShuffles ==
  \A w \in Workers :
    /\ (pc[w] = "build_vm" \/ vm_id[w] # 0) =>
         (arrived["v"] = Workers /\ pc[w] \notin {"shuffle_v", "shuffle_v_wait"})
    /\ vm_id[w] # 0 => VertexMapSealed(w)
    /\ (pc[w] = "shuffle_e" \/ w \in arrived["e"]) => VertexMapSealed(w)
    /\ (pc[w] = "build_frag" \/ frag_id[w] # 0) => arrived["e"] = Workers

\* C12 witness: with more than one worker, a worker is in the edge shuffle while
\* another one, back from the vertex shuffle, has not built its vertex map yet
C12_Witness ==
  /\ worker_num > 1
  /\ \E v, w \in Workers :
       /\ pc[w] = "shuffle_e_wait"
       /\ pc[v] = "build_vm"
       /\ vm_id[v] = 0

\* the ids fragment f owns after the shuffle, with their fragment
Owned == { <<f, o>> \in Workers \X Oids : \E i \in 1..Len(sh_out[f]) : sh_out[f][i] = o }

Reindexed(tables, shuffled) ==
  /\ \A i \in 1..Len(tables) :
       tables[i].state = "table" /\ tables[i].meta.label_index = i - 1
  /\ Cardinality({ i \in 1..Len(tables) : tables[i] # Null }) = Len(shuffled)

\* C14: after the re-indexing, for any number of labels and of entries of the
\* file list, every slot i of the vertex list and of the edge list holds a table
\* with label_index i; no slot is empty and no shuffled table is lost.
C14_EverySlotItsLabel ==
  /\ bd_pc \in {"rearrange_e", "schema", "done", "crashed"} => Reindexed(bd_v_tables, bd_shuffled.v)
  /\ bd_pc \in {"schema", "done", "crashed"} => Reindexed(bd_e_tables, bd_shuffled.e)

\* C15: once the graph schema is built, every edge table carries role EDGE, its
\* label index, source column 0, destination column 1, a relation count of 1
\* and the source label and destination label of that relation, and the schema
\* entry of every edge table has exactly one relation.
C15_OneRelation ==
  bd_pc = "done" =>
    /\ \A i \in 1..Len(bd_shuffled.e) :
         LET meta == bd_shuffled.e[i].meta
         IN  /\ meta.type = "EDGE"
             /\ meta.label_index >= 0
             /\ meta.src_column = src_column
             /\ meta.dst_column = dst_column
             /\ meta.sub_label_num = 1
             /\ meta.src_label_0 # ""
             /\ meta.dst_label_0 # ""
    /\ \A i \in 1..Len(bd_schema) :
         bd_schema[i].type = "EDGE" => Len(bd_schema[i].relations) = 1

\* worker w holds an error that came while it was reading a shard: it has not
\* all tables yet and is not in, nor out of, the SyncSchema of its current one
ReadFailedAt(w) ==
  /\ result[w].kind = "error"
  /\ Len(loaded[w]) < NumTables
  /\ cur[w] = Len(loaded[w]) + 1
  /\ worker_num > 1 => ~EnteredSync(w, cur[w])

\* C16: a worker whose shard read failed has returned an IOError from the load,
\* has entered no shuffle, sealed no vertex map or fragment and entered no group
\* build; from then on it reads nothing and its result stays.
C16_ReadFailureAborts ==
  /\ [](\A w \in Workers :
          ReadFailedAt(w) =>
            /\ pc[w] = "done"
            /\ result[w] = Error("IOError")
            /\ w \notin arrived["v"] /\ w \notin arrived["e"]
            /\ vm_id[w] = 0 /\ frag_id[w] = 0
            /\ g_instance[w] = NotSent /\ g_frag[w] = NotSent
            /\ w = Coordinator => group.id = 0)
  /\ [][\A w \in Workers :
          ReadFailedAt(w) =>
            /\ cur'[w] = cur[w] /\ table'[w] = table[w] /\ loaded'[w] = loaded[w]
            /\ result'[w] = result[w] /\ pc'[w] = pc[w]]_vars

\* C16 witness: with more than one worker, a worker that had stored its first
\* table failed to read the second one while another worker went on
C16_Witness ==
  /\ worker_num > 1
  /\ \E v, w \in Workers :
       /\ ReadFailedAt(w)
       /\ Len(loaded[w]) = 1
       /\ pc[w] = "done"
       /\ EnteredSync(v, 2)

\* C17: every worker that has initialised its partitioner gave it the fragment
\* count fnum, and for every id the partitioners of any two workers return the
\* same fragment, one of 0..fnum-1.
C17_SamePartitionEverywhere ==
  \A v, w \in Workers :
    (partitioner[v] # 0 /\ partitioner[w] # 0) =>
      /\ partitioner[v] = fnum
      /\ \A x \in Oids :
           /\ GetPartitionId(partitioner[v], x) = GetPartitionId(partitioner[w], x)
           /\ GetPartitionId(partitioner[v], x) \in 0..(fnum - 1)

\* C17 witness: more than one worker, all partitioners initialised, and two ids
\* that go to different fragments
C17_Witness ==
  /\ worker_num > 1
  /\ \A w \in Workers : partitioner[w] # 0
  /\ \E x, y \in Oids :
       GetPartitionId(partitioner[Coordinator], x) # GetPartitionId(partitioner[Coordinator], y)

\* the worker has left SyncSchema in this step
SyncSchemaReturned(w) == pc[w] = "sync" /\ pc'[w] # "sync"

\* C18: with one worker SyncSchema makes no collective call (nothing is ever
\* handed to a gather or a broadcast of the schema protocol), it returns no error,
\* and the loader goes on with the very table that was read: a table is stamped
\* and stored as it is, a null table stays null and is not replaced by a table
\* built for it.
C18_SingleWorkerSkipsSyncSchema ==
  /\ [](worker_num = 1 =>
          /\ \A k \in 1..NumTables : \A w \in Workers :
               sent_size[k][w] = NotSent /\ sent_bytes[k][w] = NoBytes
          /\ \A k \in 1..NumTables : bcast[k] = NoBytes
          /\ \A w \in Workers : \A i \in 1..Len(calls[w]) :
               calls[w][i] \notin {"Gather", "Gatherv"})
  /\ [][\A w \in Workers : (worker_num = 1 /\ SyncSchemaReturned(w)) =>
          /\ calls'[w] = <<>>
          /\ result'[w] = result[w]
          /\ pc'[w] # "done"
          /\ IF table[w] = Null
               THEN pc'[w] = "crashed" \/ table'[w] = Garbage
               ELSE /\ table'[w] = table[w]
                    /\ loaded'[w] = Append(loaded[w], Stamp(table[w], cur[w]))]_vars

\* C18 witness: the only worker has been through SyncSchema for every table and
\* holds the tables it read, none of them null
C18_Witness ==
  /\ worker_num = 1
  /\ Len(loaded[Coordinator]) = NumTables
  /\ \A i \in 1..NumTables : loaded[Coordinator][i].state = "table"

\* some step of some worker has failed: an error was returned, or an exception
\* left the call
StepFailed ==
  \E w \in Workers : result[w].kind = "error" \/ pc[w] = "threw"

\* for some table no worker had a schema: every size gathered for it is 0, or the
\* only worker read no table (it died on it or went on with what came out)
SomeTableWithoutSchema ==
  \/ \E k \in TableIds : \A w \in Workers : sent_size[k][w] = 0
  \/ /\ worker_num = 1
     /\ \/ pc[Coordinator] = "crashed"
        \/ \E i \in 1..Len(loaded[Coordinator]) : loaded[Coordinator][i].state = "garbage"

\* every worker has returned success with the id of the persisted group
AllReturnedGroup ==
  /\ group.id # 0
  /\ <<group.inst, group.id>> \in persisted
  /\ \A w \in Workers : pc[w] = "done" /\ result[w] = Ok(group.id)

\* C19: a run in which no step fails and every table has a schema on at least one
\* worker reaches the state where every worker has returned success with the id
\* of the published group; and a worker's result, once given, never changes.
C19_AllWorkersReturnGroup ==
  /\ <>(StepFailed \/ SomeTableWithoutSchema \/ AllReturnedGroup)
  /\ [][\A w \in Workers : result[w] # NoResult =>
          result'[w] = result[w] /\ pc[w] = "done" /\ pc'[w] = "done"]_vars

\* C19 witness: several workers, every table read with a schema by each of them,
\* no failure, and all have returned the group id
C19_Witness ==
  /\ worker_num > 1
  /\ ~StepFailed
  /\ ~SomeTableWithoutSchema
  /\ AllReturnedGroup
  /\ \A w \in Workers : \A i \in 1..NumTables : loaded[w][i].state = "table"

\* the worker has returned from constructFragmentGroup
ReturnedFromGroup(w) ==
  /\ pc[w] = "done"
  /\ Len(calls[w]) > 0
  /\ calls[w][1] = "GatherInstance"

\* the worker stands in the MPI_Bcast of the group id while the coordinator, with
\* both gathers behind it, is about to persist the group
BlockedInGroupBcast(w) ==
  /\ w \in Workers
  /\ pc[w] = "cfg_bcast_wait"
  /\ pc[Coordinator] = "cfg_persist"

\* C20: every worker that returns from constructFragmentGroup has issued the
\* gather of the instance ids, the gather of the fragment ids and the broadcast
\* of the group id, in this order, also when the coordinator's Persist of the
\* group failed; and a worker waiting in the broadcast gets out of it.
C20_SameCollectivesOnEveryPath ==
  /\ [](\A w \in Workers :
          ReturnedFromGroup(w) => calls[w] = <<"GatherInstance", "GatherFrag", "Bcast">>)
  /\ \A w \in 0..(MaxWorkers - 1) :
       BlockedInGroupBcast(w) ~> (w \in Workers /\ pc[w] = "done")

\* the non-null schemas that have a field at position i
HavingField(schemas, i) == { j \in NonNull(schemas) : Len(schemas[j].fields) >= i }

\* the longest field count among the non-null schemas
MaxFieldNum(schemas) ==
  CHOOSE n \in 0..MaxSchemaFields :
    /\ \A j \in NonNull(schemas) : Len(schemas[j].fields) <= n
    /\ \E j \in NonNull(schemas) : Len(schemas[j].fields) = n

\* how many of the schemas with a field at position i have type t there
CountAmongPresent(schemas, i, t) ==
  Cardinality({ j \in HavingField(schemas, i) : schemas[j].fields[i].type = t })

\* C21: for schemas of any mix of field counts FindMostCommonSchema returns a
\* schema with every position some schema has, and the type at position i is a
\* most frequent one among the schemas that have a field there; a shorter schema
\* is skipped, not indexed.
C21_ModalOverPresentFields ==
  fm_pc # "call" =>
    /\ fm_pc = "returned"
    /\ ~fm_result.null
    /\ Len(fm_result.fields) = MaxFieldNum(fm_schemas)
    /\ \A i \in 1..Len(fm_result.fields) : \A u \in Types :
         CountAmongPresent(fm_schemas, i, u)
           <= CountAmongPresent(fm_schemas, i, fm_result.fields[i].type)

\* initBasicLoader has returned on worker w
BasicLoaderInitialised(w) == pc[w] = EntryPc(StepAfter("initBasicLoader"))

\* the table is one of those the caller supplied to worker w
IsSupplied(w, t) ==
  \/ \E i \in 1..Len(partial_v_tables[w]) : partial_v_tables[w][i] = t
  \/ \E i \in 1..Len(partial_e_tables[w]) : partial_e_tables[w][i] = t

\* C22: when initBasicLoader has returned, the basic loader holds the supplied
\* tables exactly when both supplied lists are non-empty; otherwise it holds one
\* table per shard read from the files and none of the supplied ones. A worker
\* that uses its supplied tables never enters SyncSchema and hands nothing to a
\* gather of the schema protocol.
C22_SuppliedTablesIffBothLists ==
  \A w \in Workers :
    /\ BasicLoaderInitialised(w) =>
         IF partial_v_tables[w] # <<>> /\ partial_e_tables[w] # <<>>
           THEN loaded[w] = partial_v_tables[w] \o partial_e_tables[w]
           ELSE /\ Len(loaded[w]) = NumTables
                /\ \A i \in 1..NumTables : ~IsSupplied(w, loaded[w][i])
    /\ (partial_v_tables[w] # <<>> /\ partial_e_tables[w] # <<>>) =>
         /\ pc[w] # "sync"
         /\ ~InSyncSchema(w)
         /\ calls[w] = <<>>
         /\ "schema_sync" \notin { phases[w][i] : i \in 1..Len(phases[w]) }
         /\ \A k \in TableIds : sent_size[k][w] = NotSent /\ sent_bytes[k][w] = NoBytes

\* C22 witness: two workers were given both lists, with different tables, and
\* each holds its own after initBasicLoader, having made no collective call
C22_Witness ==
  /\ worker_num = 2
  /\ \A w \in Workers :
       /\ BasicLoaderInitialised(w)
       /\ partial_v_tables[w] # <<>> /\ partial_e_tables[w] # <<>>
       /\ loaded[w] = partial_v_tables[w] \o partial_e_tables[w]
       /\ calls[w] = <<>>
  /\ loaded[0] # loaded[1]

(* --------------------------- swapColumn taken alone --------------------- *)

\* the tables swapColumn can be given: 1..MaxColumns columns, each with its field
\* and its data, told apart by a number
ColumnTables ==
  { t \in UNION { [1..n -> 1..MaxColumns] : n \in 1..MaxColumns } :
      \A x, y \in 1..Len(t) : x # y => t[x] # t[y] }

\* a call with both indices inside the table; the caller's *out is null or holds
\* a table from before
InitSwap ==
  /\ ProtocolInit(1, [w \in {0} |-> 0], "off")
  /\ FileConstructor
  /\ SchemaOff
  /\ ShuffleOff
  /\ BuildOff
  /\ sw_in \in ColumnTables
  /\ sw_lhs \in 0..(Len(sw_in) - 1)
  /\ sw_rhs \in 0..(Len(sw_in) - 1)
  /\ sw_prior \in {NoTable, <<1>>}
  /\ sw_out = sw_prior
  /\ sw_status = ""
  /\ sw_pc = "call"

\* arrow::Table::RemoveColumn(i), i counted from 0
RemoveColumn(t, i) == SubSeq(t, 1, i) \o SubSeq(t, i + 2, Len(t))

\* arrow::Table::AddColumn(i, field, column): the column is inserted before
\* position i
AddColumn(t, i, column) == SubSeq(t, 1, i) \o <<column>> \o SubSeq(t, i + 1, Len(t))

swapReturn(status, out) ==
  /\ sw_status' = status
  /\ sw_out' = out
  /\ sw_pc' = "returned"
  /\ UNCHANGED <<sw_in, sw_lhs, sw_rhs, sw_prior>>
  /\ UNCHANGED <<protocolVars, partitioner, fmVars, shVars, bdVars>>

\* lines 581-584: `out = &in` sets the parameter, a local pointer; the caller's
\* table pointer is not written
swapColumn_Equal ==
  /\ sw_pc = "call"
  /\ sw_lhs = sw_rhs
  /\ swapReturn("OK", sw_out)

\* lines 585-587
swapColumn_Invalid ==
  /\ sw_pc = "call"
  /\ sw_lhs > sw_rhs
  /\ swapReturn("Invalid", sw_out)

\* lines 588-597: the column at rhs_index is removed and added at lhs_index
swapColumn_Move ==
  /\ sw_pc = "call"
  /\ sw_lhs < sw_rhs
  /\ LET column == sw_in[sw_rhs + 1]
     IN  swapReturn("OK", AddColumn(RemoveColumn(sw_in, sw_rhs), sw_lhs, column))

NextSwap == swapColumn_Equal \/ swapColumn_Invalid \/ swapColumn_Move

SpecSwap == InitSwap /\ [][NextSwap]_vars

\* the reference: columns i and j (counted from 0) exchanged, the others in place
ColumnsSwapped(t, i, j) ==
  [k \in 1..Len(t) |-> IF k = i + 1 THEN t[j + 1] ELSE IF k = j + 1 THEN t[i + 1] ELSE t[k]]

\* C23: swapColumn does what a reference swap does for every pair of indices:
\* with lhs_index > rhs_index it returns Invalid and the caller's *out is as
\* before; with lhs_index <= rhs_index it returns OK and *out is the table with
\* the two columns exchanged and every other column in place (the input table
\* when the indices are equal).
C23_SwapAgreesWithReference ==
  sw_pc = "returned" =>
    IF sw_lhs > sw_rhs
      THEN sw_status = "Invalid" /\ sw_out = sw_prior
      ELSE sw_status = "OK" /\ sw_out = ColumnsSwapped(sw_in, sw_lhs, sw_rhs)

====
